---- MODULE Spec2Model ----
(***************************************************************************)
(* A model of the TradingView websocket client of src/lib/tradingview.py:  *)
(* TradingviewClient (connect, the read loop _handle_messages, the event   *)
(* bus _notify_subscribers / subscribe, send, close) and the candle fetch  *)
(* engine get_candles with its closure handle_event.                       *)
(*                                                                         *)
(* The asyncio event loop is modelled by its observable scheduling: a      *)
(* coroutine runs without interruption between two awaits, and the tasks   *)
(* made by asyncio.create_task start in creation order (FIFO ready queue). *)
(* Inbound text is modelled at the level of its segments (what             *)
(* re.split(r"~m~\d+~m~") leaves), each already classified by its content. *)
(***************************************************************************)
EXTENDS Integers, Sequences, FiniteSets, TLC

\* ------------------------------------------------------------------------
\* Program constants and bounds of the model
\* ------------------------------------------------------------------------

\* MAX_BATCH_SIZE = 5000 in the source; the model keeps the constant and
\* scales its value so that whole pages fit in a checkable state.
MAX_BATCH_SIZE == 2

\* amount=None.  handle_event and the batch size only ever test `amount`
\* for truthiness, so None and 0 are the same input to the code.
NoAmount == 0

\* Largest timestamp the server delivers (rows carry timestamps 1..MaxTs).
MaxTs == 2
\* Largest number of rows in one timescale_update.
MaxRows == 2
\* Largest number of rows the accumulator of one symbol is driven to.
MaxAcc == 3
\* Largest number of segments in one inbound text message.
MaxSegs == 2
\* Largest number of outbound messages issued on one connection.
MaxIssued == 8
\* Number of issued messages after which the connection specifications stop
\* issuing more.
MaxConnIssued == 3

SymbolLists == {<<"A">>, <<"A", "B">>}
Amounts == {NoAmount, 1, 3}
FetchIds == {1, 2}
UserIds == {"u1", "u2"}

Min(a, b) == IF a < b THEN a ELSE b
Max(a, b) == IF a > b THEN a ELSE b

\* s[:k] of Python, for any integer k (a negative k counts from the end).
PySlice(s, k) ==
    IF k >= 0 THEN SubSeq(s, 1, Min(k, Len(s)))
    ELSE SubSeq(s, 1, Max(0, Len(s) + k))

\* ------------------------------------------------------------------------
\* Values: JSON parameters, messages, rows, candles, events
\* ------------------------------------------------------------------------

\* A JSON parameter of an outbound message: a string or a number.
JStr(s) == [k |-> "str", s |-> s, n |-> 0]
JNum(n) == [k |-> "num", s |-> "", n |-> n]

\* '=' + json.dumps({"symbol": symbol, "adjustment": "splits"})
SymbolSpec(symbol) ==
    "={\"symbol\": \"" \o symbol \o "\", \"adjustment\": \"splits\"}"

\* The price level the server quotes for a symbol, and its row 'v' for a
\* timestamp: [timestamp, open, high, low, close, volume].
Px(symbol) == IF symbol = "A" THEN 10 ELSE 20
ServerRow(symbol, t) ==
    <<t, Px(symbol), Px(symbol) + 2, Px(symbol) - 1, Px(symbol) + 1, 7>>

\* Candle(timestamp=c['v'][0], open_price=c['v'][1], high=c['v'][2],
\*        low=c['v'][3], close=c['v'][4], volume=c['v'][5])
Candle(v) ==
    [timestamp |-> v[1], open |-> v[2], high |-> v[3],
     low |-> v[4], close |-> v[5], volume |-> v[6]]

\* TradingviewEvent(name, params).  params[0] is the chart session, and for
\* a timescale_update params[1]['sds_1']['s'] is the row list s; indexable
\* is FALSE for a payload in which that path does not exist.
TradingviewEvent(name, cs, s, indexable) ==
    [name |-> name, cs |-> cs, s |-> s, indexable |-> indexable]

\* One segment of an inbound text message.
Segment(kind, text, name, cs, s, indexable) ==
    [kind |-> kind, text |-> text, name |-> name, cs |-> cs, s |-> s,
     indexable |-> indexable]
PingSeg == Segment("ping", "~h~1", "", "", <<>>, TRUE)
SessionSeg == Segment("session", "", "", "", <<>>, TRUE)
BadJsonSeg == Segment("badjson", "notjson", "", "", <<>>, TRUE)
EventSeg(name, cs, s) == Segment("event", "", name, cs, s, TRUE)
\* JSON that is a number, null or a boolean; JSON that is a list or a
\* string; a JSON object without the key "m" or without the key "p".
NumberSeg == Segment("number", "1", "", "", <<>>, TRUE)
ListSeg == Segment("nonobject", "[]", "", "", <<>>, TRUE)
NoNameSeg == Segment("nokey", "{\"p\": []}", "", "", <<>>, TRUE)
\* A timescale_update whose parameters lack ['sds_1']['s'].
BareUpdateSeg(cs) == Segment("event", "", "timescale_update", cs, <<>>, FALSE)

\* _parse_message: the payloads of a message, in input order.  A segment
\* starting with ~h~ is a ping whose data is the segment framed again with
\* its own length; a JSON object with a session_id key is a session, any
\* other JSON value an event; a segment json.loads rejects is dropped.
\* named says whether payload["data"]["m"] and ["p"] exist (lines 106-107).
\* On a number, null or a boolean the test `"session_id" in parsed` raises
\* TypeError, which _parse_message does not catch: type "raise".
ParseSegment(seg) ==
    IF seg.kind = "ping"
    THEN <<[type |-> "ping",
            data |-> "~m~" \o ToString(Len(seg.text)) \o "~m~" \o seg.text,
            named |-> TRUE,
            event |-> TradingviewEvent("", "", <<>>, TRUE)]>>
    ELSE IF seg.kind = "session"
    THEN <<[type |-> "session", data |-> "", named |-> TRUE,
            event |-> TradingviewEvent("session_event", "", <<>>, TRUE)]>>
    ELSE IF seg.kind = "event"
    THEN <<[type |-> "event", data |-> "", named |-> TRUE,
            event |-> TradingviewEvent(seg.name, seg.cs, seg.s, seg.indexable)]>>
    ELSE IF seg.kind \in {"nonobject", "nokey"}
    THEN <<[type |-> "event", data |-> "", named |-> FALSE,
            event |-> TradingviewEvent("", "", <<>>, TRUE)]>>
    ELSE IF seg.kind = "number"
    THEN <<[type |-> "raise", data |-> "", named |-> TRUE,
            event |-> TradingviewEvent("", "", <<>>, TRUE)]>>
    ELSE <<>>

RECURSIVE _parse_message(_)
_parse_message(message) ==
    IF message = <<>> THEN <<>>
    ELSE ParseSegment(Head(message)) \o _parse_message(Tail(message))

\* ------------------------------------------------------------------------
\* The frame codec at the level of text
\* ------------------------------------------------------------------------

\* A text is a sequence of atoms: "~m~", "~h~", a decimal number, a mark of
\* JSON's syntax as json.dumps writes it, or a run of characters that holds
\* none of these (and no quote or backslash, so that json.dumps escapes
\* nothing).
TM == "~m~"
TH == "~h~"
Q == "\""
\* Largest decimal number that is one atom.
MaxNumber == 99
Digits == {ToString(n) : n \in 0..MaxNumber}
NumberOf(a) == CHOOSE n \in 0..MaxNumber : ToString(n) = a

\* len(text), in characters.
RECURSIVE CharLen(_)
CharLen(text) ==
    IF text = <<>> THEN 0 ELSE Len(Head(text)) + CharLen(Tail(text))

\* JSON values: a string (its atoms), a number, a list, an object (its keys
\* in order and their values).
CStr(a) == [k |-> "str", s |-> a, n |-> 0, keys |-> <<>>, vals |-> <<>>]
CNum(n) == [k |-> "num", s |-> <<>>, n |-> n, keys |-> <<>>, vals |-> <<>>]
CList(items) == [k |-> "list", s |-> <<>>, n |-> 0, keys |-> <<>>, vals |-> items]
CObj(keys, vals) == [k |-> "obj", s |-> <<>>, n |-> 0, keys |-> keys, vals |-> vals]

\* json.dumps(v) with its default separators ", " and ": ".
RECURSIVE Dumps(_)
RECURSIVE DumpsItems(_)
RECURSIVE DumpsMembers(_, _)
Dumps(v) ==
    IF v.k = "str" THEN <<Q>> \o v.s \o <<Q>>
    ELSE IF v.k = "num" THEN <<ToString(v.n)>>
    ELSE IF v.k = "list" THEN <<"[">> \o DumpsItems(v.vals) \o <<"]">>
    ELSE <<"{">> \o DumpsMembers(v.keys, v.vals) \o <<"}">>
DumpsItems(items) ==
    IF items = <<>> THEN <<>>
    ELSE Dumps(Head(items))
         \o (IF Len(items) > 1 THEN <<", ">> \o DumpsItems(Tail(items)) ELSE <<>>)
DumpsMembers(keys, vals) ==
    IF keys = <<>> THEN <<>>
    ELSE <<Q>> \o Head(keys) \o <<Q, ": ">> \o Dumps(Head(vals))
         \o (IF Len(keys) > 1
             THEN <<", ">> \o DumpsMembers(Tail(keys), Tail(vals))
             ELSE <<>>)

\* f"~m~{len(data)}~m~{data}"
Frame(data) == <<TM, ToString(CharLen(data)), TM>> \o data

\* The object {"m": name, "p": params}.
MessageObject(name, params) ==
    CObj(<<<<"m">>, <<"p">>>>, <<CStr(name), CList(params)>>)

\* The text send(name, params) hands to the socket.
Encode(name, params) == Frame(Dumps(MessageObject(name, params)))

\* re.split(r"~m~\d+~m~", message): DigitsEnd is the index of the first atom
\* at or after j that is not a number, MatchEnd the index of the last atom
\* of a match that begins at i (0 when none begins there).
RECURSIVE DigitsEnd(_, _)
DigitsEnd(text, j) ==
    IF j <= Len(text) /\ text[j] \in Digits THEN DigitsEnd(text, j + 1) ELSE j
MatchEnd(text, i) ==
    IF /\ text[i] = TM
       /\ DigitsEnd(text, i + 1) >= i + 2
       /\ DigitsEnd(text, i + 1) <= Len(text)
       /\ text[DigitsEnd(text, i + 1)] = TM
    THEN DigitsEnd(text, i + 1)
    ELSE 0
RECURSIVE ReSplit(_, _, _, _)
ReSplit(text, i, cur, acc) ==
    IF i > Len(text) THEN Append(acc, cur)
    ELSE IF MatchEnd(text, i) # 0
    THEN ReSplit(text, MatchEnd(text, i) + 1, <<>>, Append(acc, cur))
    ELSE ReSplit(text, i + 1, Append(cur, text[i]), acc)

\* if not message: return []; events = re.split(...)[1:]
Pieces(text) ==
    IF text = <<>> THEN <<>> ELSE Tail(ReSplit(text, 1, <<>>, <<>>))

\* json.loads on the text of one piece: the value, or a JSONDecodeError
\* (ok is FALSE).  ParseValue reads one value off the front of t.
Fail == [ok |-> FALSE, v |-> CNum(0), rest |-> <<>>]
Ok(v, rest) == [ok |-> TRUE, v |-> v, rest |-> rest]

RECURSIVE FirstQuote(_, _)
FirstQuote(t, i) ==
    IF i > Len(t) THEN 0 ELSE IF t[i] = Q THEN i ELSE FirstQuote(t, i + 1)
ParseString(t) ==
    IF FirstQuote(t, 2) = 0 THEN Fail
    ELSE Ok(CStr(SubSeq(t, 2, FirstQuote(t, 2) - 1)),
            SubSeq(t, FirstQuote(t, 2) + 1, Len(t)))

RECURSIVE ParseValue(_)
RECURSIVE ParseItems(_, _)
RECURSIVE ItemsAfter(_, _)
RECURSIVE ParseMembers(_, _, _)
RECURSIVE MemberAfterKey(_, _, _)
RECURSIVE MemberAfterValue(_, _, _, _)
ParseValue(t) ==
    IF t = <<>> THEN Fail
    ELSE IF Head(t) = Q THEN ParseString(t)
    ELSE IF Head(t) \in Digits THEN Ok(CNum(NumberOf(Head(t))), Tail(t))
    ELSE IF Head(t) = "["
    THEN IF Len(t) >= 2 /\ t[2] = "]"
         THEN Ok(CList(<<>>), SubSeq(t, 3, Len(t)))
         ELSE ParseItems(Tail(t), <<>>)
    ELSE IF Head(t) = "{"
    THEN IF Len(t) >= 2 /\ t[2] = "}"
         THEN Ok(CObj(<<>>, <<>>), SubSeq(t, 3, Len(t)))
         ELSE ParseMembers(Tail(t), <<>>, <<>>)
    ELSE Fail
ParseItems(t, items) == ItemsAfter(ParseValue(t), items)
ItemsAfter(r, items) ==
    IF ~r.ok \/ r.rest = <<>> THEN Fail
    ELSE IF Head(r.rest) = "]" THEN Ok(CList(Append(items, r.v)), Tail(r.rest))
    ELSE IF Head(r.rest) = ", " THEN ParseItems(Tail(r.rest), Append(items, r.v))
    ELSE Fail
ParseMembers(t, keys, vals) ==
    IF t = <<>> \/ Head(t) # Q THEN Fail
    ELSE MemberAfterKey(ParseString(t), keys, vals)
MemberAfterKey(kr, keys, vals) ==
    IF ~kr.ok \/ kr.rest = <<>> \/ Head(kr.rest) # ": " THEN Fail
    ELSE MemberAfterValue(kr.v.s, ParseValue(Tail(kr.rest)), keys, vals)
MemberAfterValue(key, r, keys, vals) ==
    IF ~r.ok \/ r.rest = <<>> THEN Fail
    ELSE IF Head(r.rest) = "}"
    THEN Ok(CObj(Append(keys, key), Append(vals, r.v)), Tail(r.rest))
    ELSE IF Head(r.rest) = ", "
    THEN ParseMembers(Tail(r.rest), Append(keys, key), Append(vals, r.v))
    ELSE Fail

\* The whole piece must be one value: text left over is "Extra data".
Whole(r) == IF r.ok /\ r.rest = <<>> THEN r ELSE Fail
JsonLoads(piece) == Whole(ParseValue(piece))

\* "session_id" in parsed: a key of an object, a member of a list, a
\* substring of a string; on a number the test raises TypeError.
HasSessionId(v) ==
    IF v.k = "obj" THEN \E i \in 1..Len(v.keys) : v.keys[i] = <<"session_id">>
    ELSE IF v.k = "list" THEN \E i \in 1..Len(v.vals) : v.vals[i] = CStr(<<"session_id">>)
    ELSE IF v.k = "str" THEN \E i \in 1..Len(v.s) : v.s[i] = "session_id"
    ELSE FALSE
MembershipRaises(v) == v.k = "num"

\* A payload of _parse_message: its type, the echo text of a ping, the
\* parsed value of a session or an event.
Payload(type, text, data) == [type |-> type, text |-> text, data |-> data]

\* What one piece adds: payloads, parse-error prints, and whether an
\* exception that _parse_message does not catch was raised.
PieceResult(frames, errors, raised) ==
    [frames |-> frames, errors |-> errors, raised |-> raised]
Classify(r) ==
    IF ~r.ok THEN PieceResult(<<>>, 1, FALSE)
    ELSE IF MembershipRaises(r.v) THEN PieceResult(<<>>, 0, TRUE)
    ELSE IF HasSessionId(r.v)
    THEN PieceResult(<<Payload("session", <<>>, r.v)>>, 0, FALSE)
    ELSE PieceResult(<<Payload("event", <<>>, r.v)>>, 0, FALSE)
ParsePiece(piece) ==
    IF piece # <<>> /\ Head(piece) = TH
    THEN PieceResult(<<Payload("ping", Frame(piece), CNum(0))>>, 0, FALSE)
    ELSE Classify(JsonLoads(piece))

\* for event in events: the payloads in input order.  An exception that is
\* not a JSONDecodeError leaves _parse_message, and nothing is returned.
RECURSIVE DecodePieces(_, _)
RECURSIVE DecodeStep(_, _, _)
DecodePieces(pieces, acc) ==
    IF pieces = <<>> THEN acc
    ELSE DecodeStep(pieces, acc, ParsePiece(Head(pieces)))

\* The loop leaves at the first piece json.loads rejects.
DecodeStep_StopAtError(pieces, acc, r) ==
    IF r.raised
    THEN PieceResult(<<>>, acc.errors + r.errors, TRUE)
    ELSE IF r.errors > 0
    THEN PieceResult(acc.frames, acc.errors + r.errors, FALSE)
    ELSE DecodePieces(Tail(pieces),
                      PieceResult(acc.frames \o r.frames, acc.errors + r.errors, FALSE))

DecodeStep(pieces, acc, r) ==
    IF r.raised
    THEN PieceResult(<<>>, acc.errors + r.errors, TRUE)
    ELSE DecodePieces(Tail(pieces),
                      PieceResult(acc.frames \o r.frames, acc.errors + r.errors, FALSE))

\* _parse_message(message) on a text.
Decode(text) == DecodePieces(Pieces(text), PieceResult(<<>>, 0, FALSE))

\* No text is under the codec.
IdleCodec ==
    [phase |-> "idle", origin |-> "", name |-> <<>>, params |-> <<>>,
     segs |-> <<>>, text |-> <<>>, frames |-> <<>>, errors |-> 0,
     raised |-> FALSE]

\* ------------------------------------------------------------------------
\* The fetch engine: the closure state of one get_candles call
\* ------------------------------------------------------------------------

IdleFetch ==
    [caller |-> "none", symbols |-> <<>>, amount |-> NoAmount,
     chart_session |-> "", batch_size |-> MAX_BATCH_SIZE,
     all_candles |-> <<>>, current_sym_index |-> 0,
     current_sym_candles |-> <<>>, done |-> FALSE, result |-> <<>>]

\* batch_size = amount if amount and amount < MAX_BATCH_SIZE else MAX_BATCH_SIZE
BatchSize(amount) ==
    IF amount # NoAmount /\ amount < MAX_BATCH_SIZE THEN amount
    ELSE MAX_BATCH_SIZE

Msg(m, p) == [m |-> m, p |-> p]

ResolveSymbolMsg(fr, index) ==
    Msg("resolve_symbol",
        <<JStr(fr.chart_session), JStr("sds_sym_" \o ToString(index)),
          JStr(SymbolSpec(fr.symbols[index + 1]))>>)

ModifySeriesMsg(fr, index) ==
    Msg("modify_series",
        <<JStr(fr.chart_session), JStr("sds_1"), JStr("s" \o ToString(index)),
          JStr("sds_sym_" \o ToString(index)), JStr("60"), JStr("")>>)

RequestMoreDataMsg(fr) ==
    Msg("request_more_data",
        <<JStr(fr.chart_session), JStr("sds_1"), JNum(fr.batch_size)>>)

HandlerResult(fr, sent, ret, raised) ==
    [fr |-> fr, sent |-> sent, ret |-> ret, raised |-> raised]

\* The merge of a timescale_update into the accumulator (lines 233-237).
MergeRows(new_candles, current_sym_candles, batch_size) ==
    (IF Len(new_candles) > batch_size
     THEN PySlice(new_candles, Len(new_candles) - Len(current_sym_candles))
     ELSE new_candles) \o current_sym_candles

\* The test of line 243 without its amount clause.
WantsMoreData_IgnoringAmount(loaded_count, batch_size, amount) ==
    /\ loaded_count > 0
    /\ loaded_count % batch_size = 0

\* The test of line 243: another page is requested.
WantsMoreData(loaded_count, batch_size, amount) ==
    /\ loaded_count > 0
    /\ loaded_count % batch_size = 0
    /\ (amount = NoAmount \/ loaded_count < amount)

\* if amount: current_sym_candles = current_sym_candles[:amount]
Truncate(current_sym_candles, amount) ==
    IF amount # NoAmount THEN PySlice(current_sym_candles, amount)
    ELSE current_sym_candles

\* The last symbol's list in place of the first.
ResultOf_Last(all_candles) ==
    IF all_candles # <<>> THEN all_candles[Len(all_candles)] ELSE <<>>

\* result_future.set_result(all_candles[0] if all_candles else [])
ResultOf(all_candles) ==
    IF all_candles # <<>> THEN all_candles[1] ELSE <<>>

\* candles = [Candle(...) for c in current_sym_candles];
\* all_candles.append(candles), with kept the truncated accumulator.
Loaded(fr, kept) ==
    [fr EXCEPT !.current_sym_candles = kept,
               !.all_candles = Append(@, [i \in 1..Len(kept) |-> Candle(kept[i])])]

\* current_sym_index += 1; current_sym_candles = []; the two messages that
\* start the next symbol on the same chart session.
NextSymbol(next) ==
    HandlerResult(next,
                  <<ResolveSymbolMsg(next, next.current_sym_index),
                    ModifySeriesMsg(next, next.current_sym_index)>>,
                  FALSE, FALSE)

\* The next symbol is started with the rows of the finished one kept.
SymbolLoaded_KeepRows(fr, loaded) ==
    IF Len(fr.symbols) - 1 > fr.current_sym_index
    THEN NextSymbol([loaded EXCEPT !.current_sym_index = @ + 1])
    ELSE IF fr.done
    THEN HandlerResult(loaded, <<>>, FALSE, TRUE)
    ELSE HandlerResult(
             [loaded EXCEPT
                 !.done = TRUE,
                 !.result = ResultOf(loaded.all_candles),
                 !.caller = IF @ = "awaiting" THEN "returned" ELSE @],
             <<>>, TRUE, FALSE)

\* Lines 264-288 on the closure state `loaded` that holds the finished
\* symbol's candle list: the next symbol is started, or the future resolved.
SymbolLoaded(fr, loaded) ==
    IF Len(fr.symbols) - 1 > fr.current_sym_index
    THEN NextSymbol([loaded EXCEPT !.current_sym_candles = <<>>,
                                   !.current_sym_index = @ + 1])
    ELSE IF fr.done
    THEN \* set_result on a finished future: InvalidStateError
         HandlerResult(loaded, <<>>, FALSE, TRUE)
    ELSE HandlerResult(
             [loaded EXCEPT
                 !.done = TRUE,
                 !.result = ResultOf(loaded.all_candles),
                 !.caller = IF @ = "awaiting" THEN "returned" ELSE @],
             <<>>, TRUE, FALSE)

\* handle_event(event) on the closure state fr: the new closure state, the
\* messages handed to client.send in order, the return value, and whether
\* the call raised.
handle_event(fr, event) ==
    IF event.name = "timescale_update" THEN
        IF ~event.indexable
        THEN HandlerResult(fr, <<>>, FALSE, TRUE)
        ELSE HandlerResult(
                 [fr EXCEPT !.current_sym_candles =
                     MergeRows(event.s, @, fr.batch_size)],
                 <<>>, FALSE, FALSE)
    ELSE IF event.name \in {"series_completed", "symbol_error"} THEN
        IF WantsMoreData(Len(fr.current_sym_candles), fr.batch_size, fr.amount)
        THEN HandlerResult(fr, <<RequestMoreDataMsg(fr)>>, FALSE, FALSE)
        ELSE
            SymbolLoaded(fr, Loaded(fr, Truncate(fr.current_sym_candles, fr.amount)))
    ELSE HandlerResult(fr, <<>>, FALSE, FALSE)

\* ------------------------------------------------------------------------
\* State
\* ------------------------------------------------------------------------

VARIABLES
    websocket,      \* self.websocket: "none" (None), "open" or "closed"
    message_task,   \* self._message_task: "unset", "running", "done", "cancelled"
    connected,      \* self.connected
    subscribers,    \* self.subscribers, a set of handlers
    token,          \* the token connect resolved, captured by on_session
    connectPc,      \* connect(): "idle", "waiting" (line 85) or "returned"
    closePc,        \* close(): "idle" or "closing" (suspended in lines 194-197)
    closeOutcome,   \* how the last finished close() ended: "none", "ok", "raised"
    inFlightAtClose,\* the fetches that were in flight when close() was called
    tasks,          \* the write tasks made by send and not yet started, FIFO
    wire,           \* what the transport was handed, in order
    nissued,        \* number of outbound messages issued so far
    fetch,          \* the closure state of each get_candles call
    userKind,       \* what each handler given to subscribe() does when called
    tokens,         \* the handlers whose unsubscribe token the caller holds
    sessionSeen,    \* a Session frame has been handed to the bus
    lastSend,       \* the last call of send() made by the caller
    calls,          \* the handler calls of the last read-loop step
    pubs,           \* the publish calls of the last read-loop step
    codec,          \* a text under the frame codec: its origin and its decoding
    lastUnsubscribe \* the last unsubscribe token the caller invoked

vars == <<websocket, message_task, connected, subscribers, token, connectPc,
          closePc, closeOutcome, inFlightAtClose, tasks, wire, nissued, fetch, userKind,
          tokens, sessionSeen, lastSend, calls, pubs, codec, lastUnsubscribe>>

NotCodec == <<websocket, message_task, connected, subscribers, token, connectPc,
              closePc, closeOutcome, inFlightAtClose, tasks, wire, nissued, fetch,
              userKind, tokens, sessionSeen, lastSend, calls, pubs,
              lastUnsubscribe>>

Tokens == {"unauthorized_user_token"}
\* A handler of the user keeps itself (returns false), is done (returns
\* true), raises, or invokes the unsubscribe token of a target handler.
UserKinds ==
    [kind : {"keep", "done", "raise"}, target : {""}]
    \cup [kind : {"unsub"}, target : UserIds]
FetchHandler(f) == IF f = 1 THEN "fetch1" ELSE "fetch2"
FetchOf(h) == IF h = "fetch1" THEN 1 ELSE 2
FetchHandlers == {FetchHandler(f) : f \in FetchIds}
ChartSessionOf(f) == IF f = 1 THEN "cs_1" ELSE "cs_2"

\* An outbound message as a write: its issue number, and either the named
\* message of send() or the echo text of a ping.
Write(n, msg, echo) == [n |-> n, m |-> msg.m, p |-> msg.p, echo |-> echo]

Init ==
    /\ websocket = "none"
    /\ message_task = "unset"
    /\ connected = FALSE
    /\ subscribers = {}
    /\ token = "unauthorized_user_token"
    /\ connectPc = "idle"
    /\ closePc = "idle"
    /\ closeOutcome = "none"
    /\ inFlightAtClose = {}
    /\ tasks = <<>>
    /\ wire = <<>>
    /\ nissued = 0
    /\ fetch = [f \in FetchIds |-> IdleFetch]
    /\ userKind = [u \in UserIds |-> [kind |-> "keep", target |-> ""]]
    /\ tokens = {}
    /\ sessionSeen = FALSE
    /\ lastSend = [called |-> FALSE, connected |-> FALSE, raised |-> FALSE, n |-> 0]
    /\ calls = <<>>
    /\ pubs = <<>>
    /\ codec = IdleCodec
    /\ lastUnsubscribe = [called |-> FALSE, handler |-> "", present |-> FALSE,
                          changed |-> FALSE]

\* ------------------------------------------------------------------------
\* send, and the event bus
\* ------------------------------------------------------------------------

\* The part of the state a handler can change, threaded through one step of
\* the read loop.
World ==
    [subscribers |-> subscribers, fetch |-> fetch, tasks |-> tasks,
     wire |-> wire, nissued |-> nissued, connected |-> connected,
     connectPc |-> connectPc, calls |-> <<>>, pubs |-> <<>>,
     to_remove |-> {}, visited |-> <<>>, abort |-> FALSE]

\* send(name, params) with a socket object present: the message is framed
\* and a detached task is made to write it (asyncio.create_task).
RECURSIVE SendAll(_, _)
SendAll(w, msgs) ==
    IF msgs = <<>> THEN w
    ELSE SendAll([w EXCEPT !.tasks = Append(@, Write(w.nissued + 1, Head(msgs), "")),
                           !.nissued = @ + 1],
                 Tail(msgs))

\* What a handler call is remembered by: the handler, the event's name,
\* chart session and number of rows, the messages it handed to send, its
\* outcome, and the closure state of a fetch handler before and after, as
\* counts.
Summary(fr) ==
    [loaded_count |-> Len(fr.current_sym_candles),
     index |-> fr.current_sym_index,
     lists |-> Len(fr.all_candles),
     done |-> fr.done]
Call(h, event, pre, post, sent, ret, raised) ==
    [h |-> h, name |-> event.name, cs |-> event.cs, rows |-> Len(event.s),
     pre |-> Summary(pre), post |-> Summary(post),
     sent |-> sent, ret |-> ret, raised |-> raised]

\* What the loop body of _notify_subscribers does with one handler: the
\* call, and handlers_to_remove.append(handler) when it returned true.
Returned(w, h, c) ==
    [w EXCEPT !.calls = Append(@, c),
              !.visited = Append(@, h),
              !.to_remove = IF c.ret /\ ~c.raised THEN @ \cup {h} ELSE @]

\* connect.on_session
on_session(w, event) ==
    IF event.name = "session_event"
    THEN Returned(
             [SendAll(w, <<Msg("set_auth_token", <<JStr(token)>>)>>)
                 EXCEPT !.connected = TRUE, !.connectPc = "returned"],
             "on_session",
             Call("on_session", event, IdleFetch, IdleFetch,
                  <<Msg("set_auth_token", <<JStr(token)>>)>>, TRUE, FALSE))
    ELSE Returned(w, "on_session",
                  Call("on_session", event, IdleFetch, IdleFetch, <<>>, FALSE, FALSE))

\* A handler the caller registered with subscribe().
user_handler(w, u, event) ==
    LET kind == userKind[u].kind
        c == Call(u, event, IdleFetch, IdleFetch, <<>>, kind = "done", kind = "raise")
    IN  IF kind = "unsub"
        THEN Returned([w EXCEPT !.subscribers = @ \ {userKind[u].target}], u, c)
        ELSE Returned(w, u, c)

\* r is what handle_event returned for the closure state of h.
FetchReturned(w, h, event, r) ==
    Returned([SendAll(w, r.sent) EXCEPT !.fetch[FetchOf(h)] = r.fr], h,
             Call(h, event, w.fetch[FetchOf(h)], r.fr, r.sent, r.ret, r.raised))

\* A handler that leaves alone the events of other chart sessions.
fetch_handler_OwnSession(w, h, event) ==
    IF event.cs = w.fetch[FetchOf(h)].chart_session
    THEN FetchReturned(w, h, event, handle_event(w.fetch[FetchOf(h)], event))
    ELSE Returned(w, h, Call(h, event, w.fetch[FetchOf(h)], w.fetch[FetchOf(h)],
                             <<>>, FALSE, FALSE))

fetch_handler(w, h, event) ==
    FetchReturned(w, h, event, handle_event(w.fetch[FetchOf(h)], event))

Invoke(w, h, event) ==
    IF h = "on_session" THEN on_session(w, event)
    ELSE IF h \in FetchHandlers THEN fetch_handler(w, h, event)
    ELSE user_handler(w, h, event)

\* for handler in self.subscribers: the set iterator raises RuntimeError
\* ("Set changed size during iteration") on the first step taken after the
\* set's size differs from its size when the iteration began.
RECURSIVE Iterate(_, _, _, _, _)
Iterate(w, order, i, event, used) ==
    IF Cardinality(w.subscribers) # used THEN [w EXCEPT !.abort = TRUE]
    ELSE IF i > Len(order) THEN w
    ELSE Iterate(Invoke(w, order[i], event), order, i + 1, event, used)

\* _notify_subscribers(event).  order is the order in which the set yields
\* its members.  The handlers that returned true are discarded after the
\* loop, which a RuntimeError of the iteration skips.
\* The end of _notify_subscribers: w is the state before the loop, r the
\* state after it, after the subscriber set the call leaves behind.
Notified(w, event, r, after) ==
    [r EXCEPT !.subscribers = after,
              !.pubs = Append(@, [name |-> event.name,
                                  before |-> w.subscribers,
                                  visited |-> r.visited,
                                  registered |-> r.subscribers,
                                  raised |-> {r.calls[i].h :
                                      i \in {j \in (Len(w.calls) + 1)..Len(r.calls) :
                                                 r.calls[j].raised}},
                                  after |-> after,
                                  aborted |-> r.abort])]
AfterLoop(w, event, r) ==
    Notified(w, event, r,
             IF r.abort THEN r.subscribers ELSE r.subscribers \ r.to_remove)

_notify_subscribers(w, event, order) ==
    AfterLoop(w, event,
              Iterate([w EXCEPT !.to_remove = {}, !.visited = <<>>],
                      SelectSeq(order, LAMBDA h : h \in w.subscribers),
                      1, event, Cardinality(w.subscribers)))

\* The body of the read loop for one text message: for payload in payloads.
\* A ping is answered by awaiting websocket.send_str in the loop itself; an
\* exception (a closed socket, or one escaping _notify_subscribers) leaves
\* the for loop and the payloads after it.
RECURSIVE Dispatch(_, _, _, _)
Dispatch(w, payloads, i, order) ==
    IF w.abort \/ i > Len(payloads) THEN w
    ELSE LET payload == payloads[i] IN
         IF payload.type = "ping"
         THEN IF websocket = "open"
              THEN Dispatch([w EXCEPT !.wire = Append(@, Write(w.nissued + 1,
                                                  Msg("", <<>>), payload.data)),
                                      !.nissued = @ + 1],
                            payloads, i + 1, order)
              ELSE [w EXCEPT !.abort = TRUE]
         ELSE IF ~payload.named
         THEN \* payload["data"]["m"]: KeyError or TypeError
              [w EXCEPT !.abort = TRUE]
         ELSE Dispatch(_notify_subscribers(w, payload.event, order),
                       payloads, i + 1, order)

\* payloads = self._parse_message(msg.data), then the for loop; an
\* exception of _parse_message is caught by line 115 before any payload of
\* the message is handled.
HandleText(w, payloads, order) ==
    IF \E i \in 1..Len(payloads) : payloads[i].type = "raise"
    THEN [w EXCEPT !.abort = TRUE]
    ELSE Dispatch(w, payloads, 1, order)

Perms(S) ==
    {s \in [1..Cardinality(S) -> S] : \A i, j \in 1..Cardinality(S) : s[i] = s[j] => i = j}

\* ------------------------------------------------------------------------
\* What the server can put into one text message
\* ------------------------------------------------------------------------

Range(s) == {s[i] : i \in 1..Len(s)}

\* Row lists of a timescale_update: runs of consecutive timestamps, newest
\* first or oldest first.
TsLists ==
    {ts \in UNION {[1..n -> 1..MaxTs] : n \in 0..MaxRows} :
        \/ \A i \in 1..(Len(ts) - 1) : ts[i + 1] = ts[i] - 1
        \/ \A i \in 1..(Len(ts) - 1) : ts[i + 1] = ts[i] + 1}

RowsOf(symbol, ts) == [i \in 1..Len(ts) |-> ServerRow(symbol, ts[i])]

Started(f) == fetch[f].symbols # <<>>
CurrentSymbol(fr) == fr.symbols[fr.current_sym_index + 1]

\* The events of the chart session of a started fetch: rows of the symbol
\* the fetch is at, and the events that end a page.
FetchSegs(f) ==
    IF Started(f)
    THEN {EventSeg("timescale_update", fetch[f].chart_session,
                   RowsOf(CurrentSymbol(fetch[f]), ts)) : ts \in TsLists \ {<<>>}}
         \cup {EventSeg(name, fetch[f].chart_session, <<>>) :
                   name \in {"series_completed", "symbol_error", "du"}}
    ELSE {}

\* An event frame whose "m" is the name the bus gives to a Session frame.
SessionEventSeg == EventSeg("session_event", "", <<>>)

MessagesOver(segs, most) == UNION {[1..n -> segs] : n \in 1..most}

\* ------------------------------------------------------------------------
\* Operations
\* ------------------------------------------------------------------------

\* connect(): lines 61-85 up to the await of connected_event.  The socket is
\* opened, the read loop task made and on_session registered before the
\* coroutine first suspends.
Connect ==
    /\ connectPc = "idle"
    /\ websocket' = "open"
    /\ message_task' = "running"
    /\ \E t \in Tokens : token' = t
    /\ subscribers' = subscribers \cup {"on_session"}
    /\ connectPc' = "waiting"
    /\ UNCHANGED <<connected, closePc, closeOutcome, inFlightAtClose, tasks, wire, nissued,
                   fetch, userKind, tokens, sessionSeen, lastSend, calls, pubs, codec,
                   lastUnsubscribe>>

\* One round of the read loop: a text message is received and handled.
\* While close() is suspended the loop can still be handed the message its
\* receive had already been given; its next receive then ends the loop.
\* keepCalls and keepPubs say whether the step's handler calls and publish
\* calls are remembered in calls and pubs (history for the properties).
ReadLoop(message, order, keepCalls, keepPubs) ==
    /\ message_task = "running"
    /\ \E w \in {HandleText(World, _parse_message(message), order)} :
       \E ended \in {w.abort \/ websocket # "open"} :
           /\ w.nissued <= MaxIssued
           /\ \A f \in FetchIds : Len(w.fetch[f].current_sym_candles) <= MaxAcc
           /\ message_task' = IF ended THEN "done" ELSE "running"
           /\ connected' = IF ended THEN FALSE ELSE w.connected
           /\ subscribers' = w.subscribers
           /\ fetch' = w.fetch
           /\ tasks' = w.tasks
           /\ wire' = w.wire
           /\ nissued' = w.nissued
           /\ connectPc' = w.connectPc
           /\ calls' = IF keepCalls THEN w.calls ELSE <<>>
           /\ pubs' = IF keepPubs THEN w.pubs ELSE <<>>
    /\ sessionSeen' = (sessionSeen \/ \E i \in 1..Len(message) : message[i].kind = "session")
    /\ UNCHANGED <<websocket, token, closePc, closeOutcome, inFlightAtClose, userKind,
                 tokens, lastSend, codec,
                   lastUnsubscribe>>

\* The read loop ends: its receive finds the socket closed (lines 90, 117).
ReadLoopEnd ==
    /\ message_task = "running"
    /\ websocket = "closed"
    /\ message_task' = "done"
    /\ connected' = FALSE
    /\ UNCHANGED <<websocket, subscribers, token, connectPc, closePc, closeOutcome, inFlightAtClose,
                   tasks, wire, nissued, fetch, userKind, tokens, sessionSeen,
                   lastSend, calls, pubs, codec,
                   lastUnsubscribe>>

\* The error message is skipped and the loop goes on receiving.
TransportError_Continue ==
    /\ message_task = "running"
    /\ websocket = "open"
    /\ websocket' = "closed"
    /\ UNCHANGED <<message_task, connected, subscribers, token, connectPc, closePc, closeOutcome, inFlightAtClose,
                   tasks, wire, nissued, fetch, userKind, tokens, sessionSeen,
                   lastSend, calls, pubs, codec,
                   lastUnsubscribe>>

\* msg.type == ERROR: the loop breaks (lines 111-113, 117).
TransportError ==
    /\ message_task = "running"
    /\ websocket = "open"
    /\ websocket' = "closed"
    /\ message_task' = "done"
    /\ connected' = FALSE
    /\ UNCHANGED <<subscribers, token, connectPc, closePc, closeOutcome, inFlightAtClose,
                   tasks, wire, nissued, fetch, userKind, tokens, sessionSeen,
                   lastSend, calls, pubs, codec,
                   lastUnsubscribe>>

\* A detached write task starts: websocket.send_str(message).  On a closed
\* socket send_str raises inside the task and nothing is written.
RunTask ==
    /\ tasks # <<>>
    /\ tasks' = Tail(tasks)
    /\ wire' = IF websocket = "open" THEN Append(wire, Head(tasks)) ELSE wire
    /\ UNCHANGED <<websocket, message_task, connected, subscribers, token,
                   connectPc, closePc, closeOutcome, inFlightAtClose, nissued, fetch, userKind,
                   tokens, sessionSeen, lastSend, calls, pubs, codec,
                   lastUnsubscribe>>

\* send(name, params) called by the user of the client.
UserMsg == Msg("set_data_quality", <<JStr("low")>>)
Send ==
    /\ nissued < MaxIssued
    /\ IF websocket = "none"
       THEN /\ lastSend' = [called |-> TRUE, connected |-> connected,
                            raised |-> TRUE, n |-> 0]
            /\ UNCHANGED <<tasks, nissued>>
       ELSE /\ lastSend' = [called |-> TRUE, connected |-> connected,
                            raised |-> FALSE, n |-> nissued + 1]
            /\ tasks' = Append(tasks, Write(nissued + 1, UserMsg, ""))
            /\ nissued' = nissued + 1
    /\ UNCHANGED <<websocket, message_task, connected, subscribers, token,
                   connectPc, closePc, closeOutcome, inFlightAtClose, wire, fetch, userKind,
                   tokens, sessionSeen, calls, pubs, codec,
                   lastUnsubscribe>>

\* close(), lines 193-197: the socket and the http session are closed; the
\* coroutine is suspended in these awaits when a socket exists.  With no
\* socket nothing is awaited and line 199 reads self._message_task, which
\* __init__ never set: AttributeError.
CloseBegin ==
    /\ closePc = "idle"
    /\ IF websocket = "none"
       THEN /\ closeOutcome' = "raised"
            /\ UNCHANGED <<websocket, closePc>>
       ELSE /\ websocket' = "closed"
            /\ closePc' = "closing"
            /\ UNCHANGED closeOutcome
    /\ inFlightAtClose' = inFlightAtClose \cup
           {f \in FetchIds : fetch[f].caller = "awaiting" /\ ~fetch[f].done}
    /\ UNCHANGED <<message_task, connected, subscribers, token, connectPc,
                   tasks, wire, nissued, fetch, userKind, tokens, sessionSeen,
                   lastSend, calls, pubs, codec,
                   lastUnsubscribe>>

\* lines 199-206 without the cancellation of the read loop task.
CloseEnd_NoCancel ==
    /\ closePc = "closing"
    /\ connected' = FALSE
    /\ closePc' = "idle"
    /\ closeOutcome' = "ok"
    /\ UNCHANGED <<websocket, message_task, inFlightAtClose, subscribers, token,
                   connectPc, tasks, wire, nissued, fetch, userKind, tokens,
                   sessionSeen, lastSend, calls, pubs, codec,
                   lastUnsubscribe>>

\* close(), lines 199-206: the read loop task is cancelled and awaited, and
\* the connection marked not connected.
CloseEnd ==
    /\ closePc = "closing"
    /\ message_task' = IF message_task = "running" THEN "cancelled" ELSE message_task
    /\ connected' = FALSE
    /\ closePc' = "idle"
    /\ closeOutcome' = "ok"
    /\ UNCHANGED inFlightAtClose
    /\ UNCHANGED <<websocket, subscribers, token, connectPc, tasks, wire,
                   nissued, fetch, userKind, tokens, sessionSeen, lastSend,
                   calls, pubs, codec,
                   lastUnsubscribe>>

\* get_candles(client, symbols, amount), up to the await of result_future.
GetCandles(f, symbols, amount) ==
    /\ fetch[f].caller = "none"
    /\ LET fr == [IdleFetch EXCEPT
                     !.symbols = symbols, !.amount = amount,
                     !.chart_session = ChartSessionOf(f),
                     !.batch_size = BatchSize(amount)]
           first == <<Msg("chart_create_session",
                          <<JStr(fr.chart_session), JStr("")>>),
                      ResolveSymbolMsg(fr, 0),
                      Msg("create_series",
                          <<JStr(fr.chart_session), JStr("sds_1"), JStr("s0"),
                            JStr("sds_sym_0"), JStr("60"),
                            JNum(fr.batch_size), JStr("")>>)>>
       IN  IF symbols = <<>>
           THEN /\ fetch' = [fetch EXCEPT ![f].caller = "returned"]
                /\ UNCHANGED <<subscribers, tasks, nissued>>
           ELSE /\ subscribers' = subscribers \cup {FetchHandler(f)}
                /\ IF websocket = "none"
                   THEN /\ fetch' = [fetch EXCEPT ![f] = [fr EXCEPT !.caller = "raised"]]
                        /\ UNCHANGED <<tasks, nissued>>
                   ELSE /\ nissued + 3 <= MaxIssued
                        /\ fetch' = [fetch EXCEPT ![f] = [fr EXCEPT !.caller = "awaiting"]]
                        /\ tasks' = SendAll(World, first).tasks
                        /\ nissued' = nissued + 3
    /\ UNCHANGED <<websocket, message_task, connected, token, connectPc, closePc,
                   closeOutcome, inFlightAtClose, wire, userKind, tokens, sessionSeen, lastSend,
                   calls, pubs, codec,
                   lastUnsubscribe>>

\* subscribe(handler) by the user of the client, with a handler of a kind.
Subscribe(u, kind) ==
    /\ u \notin tokens
    /\ subscribers' = subscribers \cup {u}
    /\ userKind' = [userKind EXCEPT ![u] = kind]
    /\ tokens' = tokens \cup {u}
    /\ UNCHANGED <<websocket, message_task, connected, token, connectPc, closePc,
                   closeOutcome, inFlightAtClose, tasks, wire, nissued, fetch, sessionSeen,
                   lastSend, calls, pubs, codec,
                   lastUnsubscribe>>

\* A token that removes the handler when it is registered and registers it
\* when it is not.
Unsubscribe_Toggle(u) ==
    /\ u \in tokens
    /\ subscribers' = IF u \in subscribers THEN subscribers \ {u}
                      ELSE subscribers \cup {u}
    /\ lastUnsubscribe' = [called |-> TRUE, handler |-> u,
                           present |-> u \in subscribers,
                           changed |-> subscribers' # subscribers]
    /\ UNCHANGED <<websocket, message_task, connected, token, connectPc, closePc,
                   closeOutcome, inFlightAtClose, tasks, wire, nissued, fetch, userKind, tokens,
                   sessionSeen, lastSend, calls, pubs, codec>>

\* The unsubscribe token of u, invoked outside any publish:
\* self.subscribers.discard(handler), which raises nothing.
Unsubscribe(u) ==
    /\ u \in tokens
    /\ subscribers' = subscribers \ {u}
    /\ lastUnsubscribe' = [called |-> TRUE, handler |-> u,
                           present |-> u \in subscribers,
                           changed |-> subscribers' # subscribers]
    /\ UNCHANGED <<websocket, message_task, connected, token, connectPc, closePc,
                   closeOutcome, inFlightAtClose, tasks, wire, nissued, fetch, userKind, tokens,
                   sessionSeen, lastSend, calls, pubs, codec>>

\* ------------------------------------------------------------------------
\* Specifications
\* ------------------------------------------------------------------------

\* The fetch engine on one connection: one fetch, the server's events.
Receive ==
    \E message \in MessagesOver({SessionSeg} \cup FetchSegs(1), 1),
       order \in Perms(subscribers) : ReadLoop(message, order, TRUE, FALSE)

Fetch1 ==
    /\ connectPc = "returned"
    /\ \E symbols \in SymbolLists \cup {<<>>}, amount \in Amounts :
           GetCandles(1, symbols, amount)

Next ==
    \/ Connect
    \/ Fetch1
    \/ Receive
    \/ RunTask

Spec == Init /\ [][Next]_vars

\* ------------------------------------------------------------------------
\* The fetch engine (specification Spec)
\* ------------------------------------------------------------------------

FetchCalls(f) ==
    {i \in 1..Len(calls) : calls[i].h = FetchHandler(f)}
Completion(c) == c.name \in {"series_completed", "symbol_error"}
\* The call took the current symbol as fully loaded: a candle list was added.
FullyLoaded(c) == c.post.lists = c.pre.lists + 1

\* C1: when the current symbol is fully loaded and is not the last one, the
\* engine hands resolve_symbol and then modify_series for the next symbol to
\* send, keeps its handler and does not resolve; it resolves only when the
\* last symbol is fully loaded, and the value is the candle list of the
\* first symbol of the list (rows the server quoted for that symbol).
C1_MultiSymbolSequencing ==
    \A f \in FetchIds :
        /\ \A i \in FetchCalls(f) :
              LET c == calls[i]
                  last == Len(fetch[f].symbols) - 1
              IN  /\ (FullyLoaded(c) /\ c.pre.index < last) =>
                        /\ c.sent = <<ResolveSymbolMsg(fetch[f], c.pre.index + 1),
                                      ModifySeriesMsg(fetch[f], c.pre.index + 1)>>
                        /\ c.post.index = c.pre.index + 1
                        /\ ~c.post.done
                        /\ ~c.ret
                  /\ (c.post.done /\ ~c.pre.done) =>
                        /\ FullyLoaded(c)
                        /\ c.pre.index = last
        /\ fetch[f].done =>
              /\ fetch[f].all_candles # <<>>
              /\ fetch[f].result = fetch[f].all_candles[1]
              /\ \A i \in 1..Len(fetch[f].result) :
                    fetch[f].result[i].open = Px(fetch[f].symbols[1])

\* C16: in every call of a fetch's handler the symbol index stays or grows
\* by one and never passes len(symbols) - 1; the accumulator is empty after
\* a call that advanced the index, and a call that did not advance it never
\* empties a non-empty accumulator.
C16_IndexAndAccumulator ==
    \A f \in FetchIds :
        /\ Started(f) => fetch[f].current_sym_index <= Len(fetch[f].symbols) - 1
        /\ \A i \in FetchCalls(f) :
              LET c == calls[i] IN
              /\ c.post.index \in {c.pre.index, c.pre.index + 1}
              /\ c.post.index <= Len(fetch[f].symbols) - 1
              /\ c.post.index = c.pre.index + 1 => c.post.loaded_count = 0
              /\ (c.post.index = c.pre.index /\ c.pre.loaded_count > 0) =>
                     c.post.loaded_count > 0

\* A completion made the handler advance from a symbol with rows to the
\* next symbol.
C16_Witness ==
    \E i \in FetchCalls(1) :
        /\ Completion(calls[i])
        /\ calls[i].pre.loaded_count > 0
        /\ calls[i].post.index = calls[i].pre.index + 1
        /\ calls[i].post.loaded_count = 0
        /\ fetch[1].current_sym_candles = <<>>

\* A two-symbol fetch has resolved, with rows for both symbols.
C1_Witness ==
    /\ fetch[1].done
    /\ Len(fetch[1].symbols) = 2
    /\ Len(fetch[1].all_candles) = 2
    /\ fetch[1].result # <<>>
    /\ fetch[1].all_candles[2] # <<>>
    /\ fetch[1].caller = "returned"

\* C2: on series_completed or symbol_error, if the accumulated rows are a
\* positive exact multiple of batchSize and (no amount was given or fewer
\* than amount rows are accumulated), exactly one request_more_data
\* [session, "sds_1", batchSize] is sent, the handler stays and nothing
\* resolves; otherwise no request_more_data is sent and the symbol is taken
\* as fully loaded.
C2_Pagination ==
    \A f \in FetchIds : \A i \in FetchCalls(f) :
        LET c == calls[i]
            n == c.pre.loaded_count
            batchSize == IF fetch[f].amount = NoAmount
                         THEN MAX_BATCH_SIZE
                         ELSE Min(fetch[f].amount, MAX_BATCH_SIZE)
            more == /\ n > 0
                    /\ \E k \in 1..n : n = k * batchSize
                    /\ (fetch[f].amount = NoAmount \/ n < fetch[f].amount)
        IN  Completion(c) =>
                IF more
                THEN /\ c.sent = <<Msg("request_more_data",
                                       <<JStr(fetch[f].chart_session), JStr("sds_1"),
                                         JNum(batchSize)>>)>>
                     /\ ~c.ret /\ ~c.raised
                     /\ c.post = c.pre
                ELSE /\ \A j \in 1..Len(c.sent) : c.sent[j].m # "request_more_data"
                     /\ FullyLoaded(c)

\* A page was requested by a fetch with an amount, and by one without.
C2_Witness ==
    /\ \E i \in FetchCalls(1) :
          /\ Completion(calls[i])
          /\ Len(calls[i].sent) = 1
          /\ calls[i].sent[1].m = "request_more_data"
    /\ fetch[1].amount # NoAmount
    /\ FetchHandler(1) \in subscribers
    /\ ~fetch[1].done

\* C3: the accumulator of a symbol holds each delivered row once, however
\* the timescale_update events overlap.
C3_NoDuplicateRows ==
    \A f \in FetchIds :
        \A i, j \in 1..Len(fetch[f].current_sym_candles) :
            fetch[f].current_sym_candles[i] = fetch[f].current_sym_candles[j] => i = j

\* C4: when amount is given and more than amount rows are accumulated at the
\* moment the symbol is taken as fully loaded, its candle list has exactly
\* amount entries and no accumulated row left out of it is more recent than
\* a row in it.
C4_MostRecentKept ==
    [][\A f \in FetchIds :
          (/\ Len(fetch'[f].all_candles) = Len(fetch[f].all_candles) + 1
           /\ fetch[f].amount # NoAmount
           /\ Len(fetch[f].current_sym_candles) > fetch[f].amount) =>
              LET list == fetch'[f].all_candles[Len(fetch'[f].all_candles)]
                  acc == fetch[f].current_sym_candles
              IN  /\ Len(list) = fetch[f].amount
                  /\ \A i \in 1..Len(acc) :
                        (\A j \in 1..Len(list) : list[j].timestamp # acc[i][1]) =>
                            \A j \in 1..Len(list) : acc[i][1] <= list[j].timestamp
      ]_vars

\* ------------------------------------------------------------------------
\* The connection (specification SpecConn)
\* ------------------------------------------------------------------------

\* What the server sends on a connection without a fetch: pings, the Session
\* frame, an event frame named session_event, text that is not JSON, and
\* JSON that is not a message object.
ConnSegs ==
    {PingSeg, SessionSeg, SessionEventSeg, BadJsonSeg, NumberSeg, ListSeg, NoNameSeg}

ReceiveConn ==
    /\ nissued < MaxConnIssued
    /\ \E message \in MessagesOver(ConnSegs, MaxSegs),
          order \in Perms(subscribers) : ReadLoop(message, order, FALSE, FALSE)

SendConn == nissued < MaxConnIssued /\ Send

NextConn ==
    \/ Connect
    \/ SendConn
    \/ ReceiveConn
    \/ RunTask
    \/ TransportError
    \/ CloseBegin
    \/ CloseEnd
    \/ ReadLoopEnd

SpecConn == Init /\ [][NextConn]_vars

\* A connection with one fetch in flight that is closed: the Session frame,
\* rows, a timescale_update the handler cannot index, the end of the
\* fetch's series, close().
CloseSegs ==
    {SessionSeg}
    \cup (IF Started(1)
          THEN {EventSeg("series_completed", fetch[1].chart_session, <<>>),
                EventSeg("timescale_update", fetch[1].chart_session,
                         RowsOf(CurrentSymbol(fetch[1]), <<1>>)),
                BareUpdateSeg(fetch[1].chart_session)}
          ELSE {})

ReceiveClose ==
    \E message \in MessagesOver(CloseSegs, MaxSegs),
       order \in Perms(subscribers) : ReadLoop(message, order, FALSE, FALSE)

FetchClose == \E amount \in {NoAmount, 1} : GetCandles(1, <<"A">>, amount)

NextClose ==
    \/ Connect
    \/ FetchClose
    \/ ReceiveClose
    \/ RunTask
    \/ CloseBegin
    \/ CloseEnd
    \/ ReadLoopEnd

SpecClose == Init /\ [][NextClose]_vars

\* C5: connect has returned only after a Session frame was received.
C5_ReturnsAfterSessionFrame ==
    connectPc = "returned" => sessionSeen

\* C6: a send() made while the connection is not Connected fails with the
\* NotConnected error, and its message never reaches the socket.
C6_SendRequiresConnected ==
    (lastSend.called /\ ~lastSend.connected) =>
        /\ lastSend.raised
        /\ \A i \in 1..Len(wire) : wire[i].n # lastSend.n

\* C7: the transport is handed the messages of a connection in the order in
\* which they were issued.
C7_WireInIssueOrder ==
    \A i, j \in 1..Len(wire) : i < j => wire[i].n < wire[j].n

\* C17: a transport error ends the read loop and marks the connection not
\* connected; once the read loop has ended it stays ended, the connection
\* stays not connected, and no event reaches a handler any more (connect
\* does not return, no Session frame is taken, no handler sends or is
\* removed).
C17_NoReconnect ==
    [][/\ TransportError => (message_task' = "done" /\ ~connected')
       /\ message_task = "done" =>
              /\ message_task' = "done"
              /\ ~connected'
              /\ connectPc' = connectPc
              /\ sessionSeen' = sessionSeen
              /\ nissued' > nissued => lastSend'.n = nissued'
              /\ subscribers' = subscribers]_vars

\* A connected client met a transport error: the loop has ended and the
\* connection is marked not connected, with no close() involved.
C17_Witness ==
    /\ message_task = "done"
    /\ closeOutcome = "none"
    /\ closePc = "idle"
    /\ connectPc = "returned"
    /\ sessionSeen
    /\ ~connected

\* C20: a text received on an open socket never ends the read loop and
\* never takes away the connected mark, whatever its segments are; only a
\* transport error or close() (which close the socket) end the loop.
C20_TextNeverStopsLoop ==
    [][(message_task = "running" /\ websocket = "open" /\ websocket' = "open") =>
           /\ message_task' = "running"
           /\ connected => connected']_vars

\* C12: close() raises no error in any connection state (never connected,
\* connected, closed before), and once it has returned the read loop has
\* stopped and the connection is marked not connected.
C12_CloseIsSafe ==
    /\ closeOutcome # "raised"
    /\ (closeOutcome = "ok" /\ closePc = "idle") =>
           /\ message_task # "running"
           /\ ~connected

InFlight(f) == fetch[f].caller = "awaiting" /\ ~fetch[f].done

\* C10 as stated: a fetch that was in flight when close() was called does
\* not resolve from then on.
C10_NeverResolvesAfterCloseCalled ==
    [][\A f \in FetchIds :
          (f \in inFlightAtClose /\ InFlight(f)) => InFlight(f)']_vars

\* C10 amended: a fetch that is in flight when a close() call has returned
\* never resolves afterwards: no value, no error, and its caller stays
\* suspended.
C10_NeverResolvesAfterCloseReturned ==
    [][\A f \in FetchIds :
          (closeOutcome = "ok" /\ closePc = "idle" /\ InFlight(f)) =>
              /\ InFlight(f)'
              /\ fetch'[f].result = fetch[f].result]_vars

\* close() has returned, and the fetch that was in flight when it was called
\* is still in flight with its handler registered.
C10_Witness ==
    /\ closeOutcome = "ok"
    /\ closePc = "idle"
    /\ 1 \in inFlightAtClose
    /\ InFlight(1)
    /\ FetchHandler(1) \in subscribers
    /\ message_task = "cancelled"

\* ------------------------------------------------------------------------
\* Two fetches on one connection (specification SpecTwo)
\* ------------------------------------------------------------------------

\* Two callers fetch one symbol each on the same connection, at any time
\* after connect returned; the server sends events of either chart session.
TwoSegs(f) ==
    IF Started(f)
    THEN {EventSeg("timescale_update", fetch[f].chart_session,
                   RowsOf(CurrentSymbol(fetch[f]), <<1>>)),
          EventSeg("series_completed", fetch[f].chart_session, <<>>)}
    ELSE {}

ReceiveTwo ==
    \E message \in MessagesOver(TwoSegs(1) \cup TwoSegs(2), 1),
       order \in Perms(subscribers) : ReadLoop(message, order, TRUE, FALSE)

SessionTwo ==
    /\ connectPc = "waiting"
    /\ \E order \in Perms(subscribers) : ReadLoop(<<SessionSeg>>, order, TRUE, FALSE)

FetchTwo ==
    /\ connectPc = "returned"
    /\ \/ \E amount \in {NoAmount, 1} : GetCandles(1, <<"A">>, amount)
       \/ \E amount \in {NoAmount, 1} : GetCandles(2, <<"B">>, amount)

NextTwo ==
    \/ Connect
    \/ SessionTwo
    \/ FetchTwo
    \/ ReceiveTwo
    \/ RunTask

SpecTwo == Init /\ [][NextTwo]_vars

\* The handler calls of the last read-loop step in which fetch g was handed
\* an event of a chart session that is not its own.
ForeignCalls(g) ==
    {i \in FetchCalls(g) : calls[i].cs # ChartSessionOf(g)}

\* C11: with two fetches on one connection, an event of the other fetch's
\* chart session is consumed by a fetch's handler like one of its own: the
\* rows of a timescale_update are added to its accumulator, and a
\* series_completed or symbol_error makes it page or take its symbol as
\* fully loaded (which completes a fetch at its last symbol).
C11_CrossTalk ==
    \A g \in FetchIds : \A i \in ForeignCalls(g) :
        LET c == calls[i] IN
        /\ (c.name = "timescale_update" /\ c.rows <= fetch[g].batch_size) =>
               c.post.loaded_count = c.pre.loaded_count + c.rows
        /\ Completion(c) =>
               \/ c.sent = <<RequestMoreDataMsg(fetch[g])>>
               \/ FullyLoaded(c)

\* Both fetches were in flight, and the fetch of symbol B resolved in a call
\* that handed it the other chart session's series_completed, with a row
\* the server sent for symbol A in its result.
C11_Witness ==
    /\ InFlight(1)
    /\ fetch[2].done
    /\ fetch[2].symbols = <<"B">>
    /\ \E i \in 1..Len(fetch[2].result) : fetch[2].result[i].open = Px("A")
    /\ \E i \in ForeignCalls(2) :
          /\ Completion(calls[i])
          /\ calls[i].post.done /\ ~calls[i].pre.done

\* ------------------------------------------------------------------------
\* Two fetches one after the other (specification SpecSerial)
\* ------------------------------------------------------------------------

\* The caller awaits the first fetch before it starts the second, as
\* main() does for each symbol; the server may send events of the first
\* chart session after the first fetch resolved.
FetchSerial ==
    /\ connectPc = "returned"
    /\ \/ \E amount \in {NoAmount, 1} : GetCandles(1, <<"A">>, amount)
       \/ /\ fetch[1].caller = "returned"
          /\ \E amount \in {NoAmount, 1} : GetCandles(2, <<"B">>, amount)

NextSerial ==
    \/ Connect
    \/ SessionTwo
    \/ FetchSerial
    \/ ReceiveTwo
    \/ RunTask

SpecSerial == Init /\ [][NextSerial]_vars

\* C19: with serialized fetches, an event of the earlier fetch's chart
\* session leaves the later fetch as it is: its accumulator, symbol index
\* and candle lists do not change, it sends nothing and it does not
\* resolve.
C19_LateEventsIgnored ==
    \A i \in ForeignCalls(2) :
        /\ calls[i].post = calls[i].pre
        /\ calls[i].sent = <<>>
        /\ ~calls[i].ret


\* ------------------------------------------------------------------------

\* Message names and parameter lists given to send: plain text, the empty
\* string, numbers, a nested list, and strings that hold text of the form
\* ~m~<digits>~m~.
CodecNames == {<<"x">>, <<"x", TM, "7", TM>>}
CodecValues ==
    {CStr(<<"a">>), CStr(<<>>), CNum(5), CList(<<CNum(1)>>),
     CStr(<<TM, "1", TM, "a">>), CStr(<<"a", TM, "b">>)}
MaxParams == 2
CodecParams == UNION {[1..n -> CodecValues] : n \in 0..MaxParams}

\* What the server puts into one frame: a ping, a Session object, an Event
\* object, and texts json.loads rejects (not JSON, the empty text, a cut
\* object).  kind says what the content is, frame the payload it stands for.
NoPayload == Payload("none", <<>>, CNum(0))
SessionObject == CObj(<<<<"session_id">>>>, <<CStr(<<"s1">>)>>)
CodecSeg(kind, piece, frame) == [kind |-> kind, piece |-> piece, frame |-> frame]
CodecSegs ==
    {CodecSeg("ping", <<TH, "1">>, Payload("ping", <<TM, "4", TM, TH, "1">>, CNum(0))),
     CodecSeg("session", Dumps(SessionObject), Payload("session", <<>>, SessionObject)),
     CodecSeg("event", Dumps(MessageObject(<<"du">>, <<CStr(<<"cs_1">>)>>)),
              Payload("event", <<>>, MessageObject(<<"du">>, <<CStr(<<"cs_1">>)>>))),
     CodecSeg("bad", <<"notjson">>, NoPayload),
     CodecSeg("bad", <<>>, NoPayload),
     CodecSeg("bad", <<"{", Q, "m", Q, ": ", Q, "du", Q>>, NoPayload)}
MaxFrames == 3
CodecInputs == UNION {[1..n -> CodecSegs] : n \in 1..MaxFrames}

RECURSIVE TextOf(_)
TextOf(segs) ==
    IF segs = <<>> THEN <<>> ELSE Frame(Head(segs).piece) \o TextOf(Tail(segs))

\* send frames a message (lines 187-188).
EncodeMessage ==
    /\ codec.phase = "idle"
    /\ \E name \in CodecNames, params \in CodecParams :
           codec' = [IdleCodec EXCEPT !.phase = "text", !.origin = "encode",
                                      !.name = name, !.params = params,
                                      !.text = Encode(name, params)]
    /\ UNCHANGED NotCodec

\* The socket delivers a text made of frames (msg.data, line 92).
Feed ==
    /\ codec.phase = "idle"
    /\ \E segs \in CodecInputs :
           codec' = [IdleCodec EXCEPT !.phase = "text", !.origin = "feed",
                                      !.segs = segs, !.text = TextOf(segs)]
    /\ UNCHANGED NotCodec

\* _parse_message on the text.
DecodeText ==
    /\ codec.phase = "text"
    /\ \E r \in {Decode(codec.text)} :
           codec' = [codec EXCEPT !.phase = "decoded", !.frames = r.frames,
                                  !.errors = r.errors, !.raised = r.raised]
    /\ UNCHANGED NotCodec

NextCodec ==
    \/ EncodeMessage
    \/ Feed
    \/ DecodeText

SpecCodec == Init /\ [][NextCodec]_vars

\* C13: decoding the frame the encoder made for a name and a parameter list
\* yields exactly one Event payload, whose name is that name and whose
\* parameters equal the list.
C13_RoundTrip ==
    (codec.phase = "decoded" /\ codec.origin = "encode") =>
        /\ ~codec.raised
        /\ codec.frames =
               <<Payload("event", <<>>, MessageObject(codec.name, codec.params))>>

\* The payloads the valid frames of an input stand for, in input order.
RECURSIVE ValidFrames(_)
ValidFrames(segs) ==
    IF segs = <<>> THEN <<>>
    ELSE (IF Head(segs).kind = "bad" THEN <<>> ELSE <<Head(segs).frame>>)
         \o ValidFrames(Tail(segs))

\* C14: a segment json.loads rejects yields no payload and one parse-error
\* print, and the pings, sessions and events of the same text, before and
\* after it, are all returned, in input order.
C14_BadSegmentDropped ==
    (codec.phase = "decoded" /\ codec.origin = "feed") =>
        /\ ~codec.raised
        /\ codec.errors = Cardinality({i \in 1..Len(codec.segs) :
                                          codec.segs[i].kind = "bad"})
        /\ codec.frames = ValidFrames(codec.segs)

\* A text with a valid frame, then a rejected segment, then a valid frame
\* was decoded: two payloads and one print.
C14_Witness ==
    /\ codec.phase = "decoded"
    /\ codec.origin = "feed"
    /\ Len(codec.segs) = 3
    /\ codec.segs[1].kind = "event"
    /\ codec.segs[2].kind = "bad"
    /\ codec.segs[3].kind = "session"
    /\ codec.errors = 1
    /\ Len(codec.frames) = 2

\* ------------------------------------------------------------------------
\* The event bus (specification SpecBus)
\* ------------------------------------------------------------------------

\* A connection whose user subscribes handlers of every kind; the server
\* sends the Session frame and events no handler of the client reacts to.
BusSegs == {SessionSeg, EventSeg("du", "", <<>>)}

ReceiveBus ==
    \E message \in MessagesOver(BusSegs, MaxSegs),
       order \in Perms(subscribers) : ReadLoop(message, order, FALSE, TRUE)

SubscribeBus == \E u \in UserIds, kind \in UserKinds : Subscribe(u, kind)

UnsubscribeBus == \E u \in UserIds : Unsubscribe(u)

NextBus ==
    \/ Connect
    \/ SubscribeBus
    \/ UnsubscribeBus
    \/ ReceiveBus
    \/ RunTask

SpecBus == Init /\ [][NextBus]_vars

\* C15: invoking the unsubscribe token of a handler that is not registered
\* any more (removed by an earlier call of the token, or by having returned
\* true) changes nothing; a removed handler stays removed, and a publish
\* only ever invokes handlers that were registered when it began.
C15_IdempotentUnsubscribe ==
    [][/\ (lastUnsubscribe'.called /\ ~lastUnsubscribe'.present) =>
              ~lastUnsubscribe'.changed
       /\ \A u \in UserIds :
              (u \in tokens /\ u \notin subscribers) => u \notin subscribers'
       /\ \A k \in 1..Len(pubs') :
              Range(pubs'[k].visited) \subseteq pubs'[k].before]_vars

\* The token of a handler that had removed itself by returning true was
\* invoked, and a later publish left the handler out.
C15_Witness ==
    /\ lastUnsubscribe.called
    /\ ~lastUnsubscribe.present
    /\ userKind[lastUnsubscribe.handler].kind = "done"
    /\ lastUnsubscribe.handler \notin subscribers
    /\ pubs # <<>>
    /\ \A k \in 1..Len(pubs) :
          /\ lastUnsubscribe.handler \notin pubs[k].before
          /\ ~pubs[k].aborted

\* C18: whenever connect has returned and no fetch is in flight, the
\* subscriber set holds neither the handshake handler of connect nor the
\* handler of a fetch that has resolved.
C18_NoLeftoverHandlers ==
    (connectPc = "returned" /\ \A f \in FetchIds : ~InFlight(f)) =>
        /\ "on_session" \notin subscribers
        /\ \A f \in FetchIds : fetch[f].done => FetchHandler(f) \notin subscribers

\* C8: in a publish call, every handler that is still registered when the
\* iteration ends was invoked, whatever was removed meanwhile, and no
\* handler was invoked twice.
C8_RemovalKeepsDelivery ==
    \A k \in 1..Len(pubs) :
        /\ \A h \in pubs[k].registered : h \in Range(pubs[k].visited)
        /\ \A i, j \in 1..Len(pubs[k].visited) :
              pubs[k].visited[i] = pubs[k].visited[j] => i = j

\* C9: a publish call in which a handler raised does not abort: every
\* handler still registered was invoked, the raising handler stays
\* registered unless a token removed it, and the next publish invokes it.
C9_HandlerFaultIsolated ==
    \A k \in 1..Len(pubs) :
        pubs[k].raised # {} =>
            /\ ~pubs[k].aborted
            /\ \A h \in pubs[k].registered : h \in Range(pubs[k].visited)
            /\ (pubs[k].raised \cap pubs[k].registered) \subseteq pubs[k].after
            /\ k < Len(pubs) =>
                  (pubs[k].raised \cap pubs[k + 1].before)
                      \subseteq Range(pubs[k + 1].visited)

====
